---- MODULE Spec2Model ----
(***************************************************************************)
(* Model of monitoring_util.py: the nagios range decoder Check_Range, the  *)
(* Response aggregate and the return-code remapping of Plugin_Check.parse.  *)
(*                                                                         *)
(* Strings are sequences of symbols.  A symbol is one character, except    *)
(* "nan", "OK", "WARNING", "CRITICAL", "UNKNOWN", which stand for the      *)
(* character runs of that spelling.  str.startswith, str.split and string  *)
(* concatenation act on the sequence; float() is decided on it.            *)
(*                                                                         *)
(* Numbers are records [k, v]: k = "fin" is the number v; "maxsize" is     *)
(* sys.maxsize (2^63-1, beyond TLC's 32-bit integers); "huge" is a finite *)
(* float above sys.maxsize (such as 1e19); "inf" is float('inf'); "nan" is *)
(* float('nan').  Comparison follows Python: exact by value, and every     *)
(* ordered comparison with nan is false.                                   *)
(***************************************************************************)
EXTENDS Integers, Sequences, FiniteSets, TLC

\* ---------------------------------------------------------------- bounds
MaxLen == 4          \* longest range specification, in symbols
MaxBelow == 1        \* measured values handed to check() go down to -MaxBelow
MaxVal == 3          \* largest small measured value handed to check()
MaxDetails == 2      \* most add_detail calls before exit
MaxRecorded == 2     \* most set_status calls before exit
MaxPeers == 2        \* most peers ntpq lists
MaxMessages == 2     \* most messages in the IMAP folder
MaxScopes == 2       \* most DHCP scopes in the results of BECS
MaxCalls == 2        \* most calls of write_config
MaxRrsig == 2        \* most RRSIG records in the zone
MaxAge == 60         \* file ages, in hours, looked at for an outcome

\* ------------------------------------------------------ nagios return codes
OK == 0
DEFAULT_WARNING == 1
DEFAULT_CRITICAL == 2
DEFAULT_UNKNOWN == 3

str_to_errstat == [n \in {"ok", "warning", "critical", "unknown"} |->
                     CASE n = "ok" -> 0
                       [] n = "warning" -> 1
                       [] n = "critical" -> 2
                       [] n = "unknown" -> 3]

errstat_to_str_swapped == [c \in 0..3 |->
                     CASE c = 0 -> <<"OK">>
                       [] c = 1 -> <<"CRITICAL">>
                       [] c = 2 -> <<"WARNING">>
                       [] c = 3 -> <<"UNKNOWN">>]

errstat_to_str == [c \in 0..3 |->
                     CASE c = 0 -> <<"OK">>
                       [] c = 1 -> <<"WARNING">>
                       [] c = 2 -> <<"CRITICAL">>
                       [] c = 3 -> <<"UNKNOWN">>]

\* Python's None, for a status, for a string and for a list of strings
None == -1
NoneStr == <<"<None>">>
NoneList == <<NoneStr>>

\* ----------------------------------------------------------------- numbers
Fin(n) == [k |-> "fin", v |-> n]
sys_maxsize == [k |-> "maxsize", v |-> 0]
Huge == [k |-> "huge", v |-> 0]
Inf == [k |-> "inf", v |-> 0]
NaN == [k |-> "nan", v |-> 0]
NoNum == [k |-> "unset", v |-> 0]

Magnitude(x) == CASE x.k = "fin" -> 1
                  [] x.k = "maxsize" -> 2
                  [] x.k = "huge" -> 3
                  [] x.k = "inf" -> 4
                  [] OTHER -> 0

\* Python's  a < b  and  a > b  on int and float operands
Lt(a, b) == /\ a.k # "nan"
            /\ b.k # "nan"
            /\ \/ Magnitude(a) < Magnitude(b)
               \/ a.k = "fin" /\ b.k = "fin" /\ a.v < b.v

Gt(a, b) == Lt(b, a)

\* ----------------------------------------------------------------- strings
Alphabet == {"@", ":", "~", "-", "1", "2", "nan"}
Texts == UNION {[1..n -> Alphabet] : n \in 0..MaxLen}

Digit == [c \in {"0", "1", "2", "3", "4", "5", "6", "7", "8", "9"} |->
            CASE c = "0" -> 0 [] c = "1" -> 1 [] c = "2" -> 2 [] c = "3" -> 3
              [] c = "4" -> 4 [] c = "5" -> 5 [] c = "6" -> 6 [] c = "7" -> 7
              [] c = "8" -> 8 [] c = "9" -> 9]

startswith(s, c) == Len(s) > 0 /\ s[1] = c

RECURSIVE split(_, _)
split(s, sep) ==
    IF \A i \in 1..Len(s) : s[i] # sep
    THEN <<s>>
    ELSE LET i == CHOOSE j \in 1..Len(s) :
                     s[j] = sep /\ \A l \in 1..(j - 1) : s[l] # sep
         IN  <<SubSeq(s, 1, i - 1)>> \o split(SubSeq(s, i + 1, Len(s)), sep)

RECURSIVE DecimalValue(_)
DecimalValue(ds) ==
    IF ds = <<>> THEN 0
    ELSE DecimalValue(SubSeq(ds, 1, Len(ds) - 1)) * 10 + Digit[ds[Len(ds)]]

\* float(text): [exc, val].  Accepted here: an optional "-" followed by
\* decimal digits, or by nan.  Every other text over Alphabet is rejected
\* by Python's float() as well ("~", "@", "", "-", "1-", "nan1", ...).
float_or_zero(s) ==
    LET neg  == startswith(s, "-")
        body == IF neg THEN Tail(s) ELSE s
    IN  IF body = <<"nan">>
        THEN [exc |-> "none", val |-> NaN]
        ELSE IF body # <<>> /\ \A i \in 1..Len(body) : body[i] \in DOMAIN Digit
        THEN [exc |-> "none",
              val |-> Fin(IF neg THEN 0 - DecimalValue(body) ELSE DecimalValue(body))]
        ELSE [exc |-> "none", val |-> Fin(0)]

float(s) ==
    LET neg  == startswith(s, "-")
        body == IF neg THEN Tail(s) ELSE s
    IN  IF body = <<"nan">>
        THEN [exc |-> "none", val |-> NaN]
        ELSE IF body # <<>> /\ \A i \in 1..Len(body) : body[i] \in DOMAIN Digit
        THEN [exc |-> "none",
              val |-> Fin(IF neg THEN 0 - DecimalValue(body) ELSE DecimalValue(body))]
        ELSE [exc |-> "ValueError", val |-> NoNum]

\* ------------------------------------------------------------- Check_Range
NoObject(e) == [exc |-> e, range |-> <<>>, inside |-> FALSE,
                start |-> NoNum, end |-> NoNum]

\* lines 82-85: a leading "@" sets inside and is removed
strip_inside_unset(range_) ==
    [inside |-> FALSE,
     range  |-> IF startswith(range_, "@") THEN Tail(range_) ELSE range_]

strip_inside(range_) ==
    [inside |-> startswith(range_, "@"),
     range  |-> IF startswith(range_, "@") THEN Tail(range_) ELSE range_]

\* lines 88-100: which branch the number of parts selects
branch_at_least_two(tmp) ==
    IF Len(tmp) >= 2 THEN "range" ELSE "end_only"

branch(tmp) ==
    IF Len(tmp) > 2 THEN "invalid"
    ELSE IF Len(tmp) = 2 THEN "range"
    ELSE "end_only"

\* Check_Range.__init__: the object built from range_, or the exception raised
Check_Range(range_) ==
    LET inside == strip_inside(range_).inside
        range  == strip_inside(range_).range
        tmp    == split(range, ":")
    IN  IF branch(tmp) = "invalid"
        THEN NoObject("ValueError")
        ELSE IF branch(tmp) = "range"
        THEN LET fs == IF tmp[1] # <<>> THEN float(tmp[1])
                       ELSE [exc |-> "none", val |-> Fin(0)]
                 fe == IF tmp[2] # <<>> THEN float(tmp[2])
                       ELSE [exc |-> "none", val |-> sys_maxsize]
             IN  IF fs.exc # "none" THEN NoObject(fs.exc)
                 ELSE IF fe.exc # "none" THEN NoObject(fe.exc)
                 ELSE IF Gt(fs.val, fe.val) THEN NoObject("ValueError")
                 ELSE [exc |-> "none", range |-> range, inside |-> inside,
                       start |-> fs.val, end |-> fe.val]
        \* only end is specified: float(range) is applied to the builtin
        \* named range, not to range_, and raises TypeError
        ELSE NoObject("TypeError")

\* Check_Range.check
check_endpoints_alert(self, value) ==
    ~(Gt(value, self.start) /\ Lt(value, self.end))

check(self, value) == Lt(value, self.start) \/ Gt(value, self.end)

\* Check_Range.check_warn_crit, with the module's current return codes
check_warn_crit_from_start(self, value, warning, critical) ==
    IF Gt(value, self.end) THEN critical
    ELSE IF ~Lt(value, self.start) THEN warning
    ELSE OK

check_warn_crit(self, value, warning, critical) ==
    IF Gt(value, self.end) THEN critical
    ELSE IF Gt(value, self.start) THEN warning
    ELSE OK

\* ------------------------------------------------------------------- state
VARIABLES UNKNOWN, WARNING, CRITICAL, parsed, range_, range_obj, ret,
          response, recorded, added, exit_args, stdout, exit_code,
          args,        \* the return-code options parse() read
          printed,     \* number of status lines printed so far
          exit_name,   \* the m_util name a script handed to response.exit
          raised,      \* the uncaught exception that ended the process
          script       \* the running check script: its position and locals

vars == <<UNKNOWN, WARNING, CRITICAL, parsed, range_, range_obj, ret,
          response, recorded, added, exit_args, stdout, exit_code,
          args, printed, exit_name, raised, script>>

globals == <<UNKNOWN, WARNING, CRITICAL, parsed, args>>
script_vars == <<printed, exit_name, raised, script>>
range_vars == <<range_, range_obj, ret>>
response_vars == <<response, recorded, added, exit_args, stdout, exit_code>>

Values == {Fin(n) : n \in (0 - MaxBelow)..MaxVal} \cup {Huge}
Statuses == 0..3
DetailTexts == {<<"a">>, <<"b">>}
MsgTexts == {<<"m">>, <<>>}
PerfTexts == {<<"p">>}

NoArgs == [unknown_as |-> "unset", warning_as |-> "unset", critical_as |-> "unset"]
NoScript == [name |-> "none", pc |-> "none"]

NoCall == [op |-> "none", value |-> NoNum, alert |-> FALSE, stat |-> None]

\* Response.__init__ at import time, before any parse
Response_starts_ok == [status |-> OK, perfdata |-> NoneStr, details |-> NoneList]

Response == [status |-> DEFAULT_UNKNOWN, perfdata |-> NoneStr, details |-> NoneList]

Init ==
    /\ UNKNOWN = DEFAULT_UNKNOWN
    /\ WARNING = DEFAULT_WARNING
    /\ CRITICAL = DEFAULT_CRITICAL
    /\ parsed = FALSE
    /\ range_ = NoneStr
    /\ range_obj = NoObject("unbuilt")
    /\ ret = NoCall
    /\ response = Response
    /\ recorded = <<>>
    /\ added = <<>>
    /\ exit_args = [status |-> None, msg |-> NoneStr]
    /\ stdout = NoneStr
    /\ exit_code = None
    /\ args = NoArgs
    /\ printed = 0
    /\ exit_name = "none"
    /\ raised = "none"
    /\ script = NoScript

\* ------------------------------------------------------ Plugin_Check.parse
\* A script calls parse() once, before it builds its Check_Range objects
\* (check_ntp_peers.py:94-97).
parse(unknown_as, warning_as, critical_as) ==
    /\ ~parsed
    /\ range_ = NoneStr
    /\ UNKNOWN' = str_to_errstat[unknown_as]
    /\ WARNING' = str_to_errstat[warning_as]
    /\ CRITICAL' = str_to_errstat[critical_as]
    /\ parsed' = TRUE
    /\ args' = [unknown_as |-> unknown_as, warning_as |-> warning_as,
                critical_as |-> critical_as]
    /\ UNCHANGED <<range_vars, response_vars, script_vars>>

\* ------------------------------------------------- Check_Range operations
Construct ==
    /\ range_ = NoneStr
    /\ \E r \in Texts :
          /\ range_' = r
          /\ range_obj' = Check_Range(r)
    /\ ret' = NoCall
    /\ UNCHANGED <<globals, response_vars, script_vars>>

Check(value) ==
    /\ range_obj.exc = "none"
    /\ ret' = [op |-> "check", value |-> value,
               alert |-> check(range_obj, value), stat |-> None]
    /\ UNCHANGED <<globals, range_, range_obj, response_vars, script_vars>>

CheckWarnCrit(value) ==
    /\ range_obj.exc = "none"
    /\ ret' = [op |-> "check_warn_crit", value |-> value, alert |-> FALSE,
               stat |-> check_warn_crit(range_obj, value, WARNING, CRITICAL)]
    /\ UNCHANGED <<globals, range_, range_obj, response_vars, script_vars>>

NextRange ==
    \/ \E u, w, c \in DOMAIN str_to_errstat : parse(u, w, c)
    \/ Construct
    \/ \E v \in Values : Check(v)
    \/ \E v \in Values : CheckWarnCrit(v)

SpecRange == Init /\ [][NextRange]_vars

\* ---------------------------------------------------- Response operations
set_status(status) ==
    /\ exit_code = None
    /\ Len(recorded) < MaxRecorded
    /\ response' = IF status > response.status
                   THEN [response EXCEPT !.status = status]
                   ELSE response
    /\ recorded' = Append(recorded, status)
    /\ UNCHANGED <<globals, range_vars, script_vars, added, exit_args, stdout, exit_code>>

add_detail(msg) ==
    /\ exit_code = None
    /\ Len(added) < MaxDetails
    /\ response' = [response EXCEPT !.details =
                       IF response.details = NoneList THEN <<msg>>
                       ELSE Append(response.details, msg)]
    /\ added' = Append(added, msg)
    /\ UNCHANGED <<globals, range_vars, script_vars, recorded, exit_args, stdout, exit_code>>

\* a script's  m_util.response.perfdata = ...
set_perfdata(p) ==
    /\ exit_code = None
    /\ response.perfdata = NoneStr
    /\ response' = [response EXCEPT !.perfdata = p]
    /\ UNCHANGED <<globals, range_vars, script_vars, recorded, added, exit_args, stdout, exit_code>>

RECURSIVE JoinDetails(_, _)
\* the loop  for detail in self.details: s += '\n' + detail
JoinDetails(s, details) ==
    IF details = <<>> THEN s
    ELSE JoinDetails(s \o <<"\n">> \o Head(details), Tail(details))

\* the text Response.exit prints, self.status being already overridden
exit_text_details_first(self, msg) ==
    LET s0 == errstat_to_str[self.status]
        s1 == IF msg # NoneStr THEN s0 \o <<" ">> \o msg ELSE s0
        s2 == IF self.details # NoneList /\ self.details # <<>>
              THEN JoinDetails(s1, self.details)
              ELSE s1
    IN  IF self.perfdata # NoneStr THEN s2 \o <<"|">> \o self.perfdata ELSE s2

exit_text(self, msg) ==
    LET s0 == errstat_to_str[self.status]
        s1 == IF msg # NoneStr THEN s0 \o <<" ">> \o msg ELSE s0
        s2 == IF self.perfdata # NoneStr THEN s1 \o <<"|">> \o self.perfdata ELSE s1
    IN  IF self.details # NoneList /\ self.details # <<>>
        THEN JoinDetails(s2, self.details)
        ELSE s2

exit(status, msg) ==
    /\ exit_code = None
    /\ LET self == IF status # None THEN [response EXCEPT !.status = status]
                   ELSE response
       IN  /\ response' = self
           /\ stdout' = exit_text(self, msg)
           /\ exit_code' = self.status
    /\ exit_args' = [status |-> status, msg |-> msg]
    /\ printed' = printed + 1
    /\ UNCHANGED <<globals, range_vars, recorded, added, exit_name, raised, script>>

Next ==
    \/ \E s \in Statuses : set_status(s)
    \/ \E d \in DetailTexts : add_detail(d)
    \/ \E p \in PerfTexts : set_perfdata(p)
    \/ \E s \in Statuses \cup {None}, m \in MsgTexts \cup {NoneStr} : exit(s, m)

Spec == Init /\ [][Next]_vars

\* ------------------------------------------------- the process of a script
\* what a script run has printed and how it ended
World == [response |-> response, exit_args |-> exit_args, stdout |-> stdout,
          exit_code |-> exit_code, printed |-> printed,
          exit_name |-> exit_name, raised |-> raised]

\* sys.exit (monitoring_util.py:58) raises SystemExit, which no script
\* catches, and an uncaught exception ends the interpreter: the statements
\* after either are not run
Terminated_never(w) == FALSE

Terminated(w) == w.exit_code # None

\* the current value of m_util.OK, m_util.WARNING, m_util.CRITICAL, m_util.UNKNOWN
Code(name) == CASE name = "OK" -> OK
                [] name = "WARNING" -> WARNING
                [] name = "CRITICAL" -> CRITICAL
                [] name = "UNKNOWN" -> UNKNOWN

\* m_util.response.exit(m_util.<name>, msg), reached in world w
response_exit(w, name, msg) ==
    IF Terminated(w) THEN w
    ELSE LET self == [w.response EXCEPT !.status = Code(name)]
         IN  [response |-> self,
              exit_args |-> [status |-> Code(name), msg |-> msg],
              stdout |-> exit_text(self, msg),
              exit_code |-> self.status,
              printed |-> w.printed + 1,
              exit_name |-> name,
              raised |-> w.raised]

\* an exception nothing catches: traceback on stderr, exit code 1
uncaught(w, exc) ==
    IF Terminated(w) THEN w
    ELSE [w EXCEPT !.raised = exc, !.exit_code = 1]

Commit(w) ==
    /\ response' = w.response
    /\ exit_args' = w.exit_args
    /\ stdout' = w.stdout
    /\ exit_code' = w.exit_code
    /\ printed' = w.printed
    /\ exit_name' = w.exit_name
    /\ raised' = w.raised

\* ---------------------------------------------------- check_file_status.py
DEFAULT_AGE_WARNING == 48
DEFAULT_AGE_CRITICAL == 36

\* --age_warning / --age_critical: the defaults and a pair given by the user
FileStatusArgs ==
    {[age_warning |-> DEFAULT_AGE_WARNING, age_critical |-> DEFAULT_AGE_CRITICAL],
     [age_warning |-> 24, age_critical |-> DEFAULT_AGE_WARNING]}

\* file ages in hours, on both sides of either limit
Ages == {0, 30, DEFAULT_AGE_CRITICAL, DEFAULT_AGE_CRITICAL + 1,
         DEFAULT_AGE_WARNING, DEFAULT_AGE_WARNING + 1}

\* lines of a status file, as sequences of characters
FileLines == {<<>>, <<"O", "K">>, <<"o", "k", "a", "y">>,
              <<"W", "a", "r", "n", "i", "n", "g">>,
              <<"C", "R", "I", "T", "I", "C", "A", "L", " ", "x">>,
              <<"u", "n", "k", "n", "o", "w", "n">>,
              <<"x", " ", "O", "K">>, <<"O", "k", " ">>}
Files == {<<>>} \cup {<<l>> : l \in FileLines}
              \cup {<<l, <<"C", "R", "I", "T", "I", "C", "A", "L">>>> : l \in FileLines}

UpperCase == <<"A", "B", "C", "D", "E", "F", "G", "H", "I", "J", "K", "L", "M",
               "N", "O", "P", "Q", "R", "S", "T", "U", "V", "W", "X", "Y", "Z">>
LowerCase == <<"a", "b", "c", "d", "e", "f", "g", "h", "i", "j", "k", "l", "m",
               "n", "o", "p", "q", "r", "s", "t", "u", "v", "w", "x", "y", "z">>

\* str.lower
lower(t) == [i \in 1..Len(t) |->
               IF \E j \in 1..26 : UpperCase[j] = t[i]
               THEN LowerCase[CHOOSE j \in 1..26 : UpperCase[j] = t[i]]
               ELSE t[i]]

\* the characters of the keys of str_to_errstat
key_chars == [n \in DOMAIN str_to_errstat |->
                CASE n = "ok" -> <<"o", "k">>
                  [] n = "warning" -> <<"w", "a", "r", "n", "i", "n", "g">>
                  [] n = "critical" -> <<"c", "r", "i", "t", "i", "c", "a", "l">>
                  [] n = "unknown" -> <<"u", "n", "k", "n", "o", "w", "n">>]

\* str.startswith with a prefix of any length
startswith_str(t, prefix) ==
    Len(t) >= Len(prefix) /\ SubSeq(t, 1, Len(prefix)) = prefix

\* str.rstrip: the text without the blanks at its end
RECURSIVE rstrip(_)
rstrip(t) == IF t # <<>> /\ t[Len(t)] = " " THEN rstrip(SubSeq(t, 1, Len(t) - 1))
             ELSE t

\* lines 65-74: the return code read from the lines of the file
file_retcode(lines, unknown) ==
    IF lines = <<>> THEN None
    ELSE LET tmp == lower(rstrip(lines[1]))
         IN  IF \E key \in DOMAIN str_to_errstat : startswith_str(tmp, key_chars[key])
             THEN str_to_errstat[CHOOSE key \in DOMAIN str_to_errstat :
                                     startswith_str(tmp, key_chars[key])]
             ELSE unknown

\* lines 54-59: the exit an age alone causes
age_exit(age_hours, age_warning, age_critical) ==
    IF age_hours > age_critical THEN "CRITICAL"
    ELSE IF age_hours > age_warning THEN "WARNING"
    ELSE "none"

\* Check_File_Status.__init__: the options besides the return codes
FileStatusInit ==
    /\ parsed
    /\ script.pc = "none"
    /\ \E a \in FileStatusArgs :
          script' = [name |-> "check_file_status", pc |-> "check",
                     age_warning |-> a.age_warning,
                     age_critical |-> a.age_critical,
                     exists |-> FALSE, mtime_ok |-> FALSE, age_hours |-> 0,
                     readable |-> FALSE, lines |-> <<>>, retcode |-> None]
    /\ UNCHANGED <<globals, range_vars, response_vars, printed, exit_name, raised>>

\* Check_File_Status.check
FileStatusCheck ==
    /\ script.name = "check_file_status"
    /\ script.pc = "check"
    /\ exit_code = None
    /\ \E exists, mtime_ok, readable \in BOOLEAN, age_hours \in Ages, lines \in Files :
          LET w1 == IF ~exists
                    THEN response_exit(World, "UNKNOWN", <<"File does not exist">>)
                    ELSE World
              w2 == IF ~exists \/ ~mtime_ok
                    THEN response_exit(w1, "UNKNOWN", <<"Cannot get modified time">>)
                    ELSE w1
              aged == age_exit(age_hours, script.age_warning, script.age_critical)
              w3 == IF aged # "none"
                    THEN response_exit(w2, aged, <<"File older than limit">>)
                    ELSE w2
              w4 == IF ~readable
                    THEN response_exit(w3, "UNKNOWN", <<"Cannot open file">>)
                    ELSE w3
              w5 == response_exit(w4, "OK", <<"File last modified">>)
          IN  /\ script' = [script EXCEPT !.pc = "done", !.exists = exists,
                               !.mtime_ok = mtime_ok, !.age_hours = age_hours,
                               !.readable = readable, !.lines = lines,
                               !.retcode = IF Terminated(w4) THEN None
                                           ELSE file_retcode(lines, UNKNOWN)]
              /\ Commit(w5)
    /\ UNCHANGED <<globals, range_vars, recorded, added>>

NextFileStatus ==
    \/ \E u, w, c \in DOMAIN str_to_errstat : parse(u, w, c)
    \/ FileStatusInit
    \/ FileStatusCheck

SpecFileStatus == Init /\ [][NextFileStatus]_vars

\* ------------------------------------------------------ check_ntp_peers.py
\* --max_offset / --max_jitter: the default and a limit without a colon
NtpDefaultRange == <<"2", "5", "0", ":", "5", "0", "0">>
NtpRangeTexts == {NtpDefaultRange, <<"5", "0", "0">>}

\* the peers ntpq -p lists: tally, stratum, offset and jitter in ms
Peers == [tally : {"*", "+"}, stratum : {2, 16},
          offset : {100, -300}, jitter : {100, 300, 600}]
PeerLists == UNION {[1..n -> Peers] : n \in 0..MaxPeers}

\* Peer.isUp
isUp(peer) == peer.stratum # 16

\* abs
abs(n) == IF n < 0 THEN 0 - n ELSE n

\* lines 117-141: the loop over the peers from peer i on; response has
\* neither setStatus nor addDetail, so either call raises AttributeError
RECURSIVE ntp_peers_loop(_, _, _, _)
ntp_peers_loop(st, self, peers, i) ==
    IF i > Len(peers) THEN st
    ELSE LET peer == peers[i]
             selectedPeer == IF peer.tally = "*" THEN i ELSE st.selectedPeer
             stat_o == check_warn_crit(self.max_offset, Fin(abs(peer.offset)),
                                       WARNING, CRITICAL)
             w1 == IF isUp(peer) /\ stat_o # OK
                   THEN uncaught(st.w, "AttributeError") ELSE st.w
             stat_j == check_warn_crit(self.max_jitter, Fin(peer.jitter),
                                       WARNING, CRITICAL)
             w2 == IF isUp(peer) /\ stat_j # OK
                   THEN uncaught(w1, "AttributeError") ELSE w1
             w3 == uncaught(w2, "AttributeError")
         IN  ntp_peers_loop([w |-> w3, selectedPeer |-> selectedPeer,
                             countUp |-> IF isUp(peer) THEN st.countUp + 1
                                         ELSE st.countUp],
                            self, peers, i + 1)

\* Check_Ntp_Peers.__init__: the two limits become Check_Range objects
NtpInit ==
    /\ parsed
    /\ script.pc = "none"
    /\ \E max_offset, max_jitter \in NtpRangeTexts :
          LET o == Check_Range(max_offset)
              j == Check_Range(max_jitter)
              failed == o.exc # "none" \/ j.exc # "none"
          IN  /\ script' = [name |-> "check_ntp_peers",
                            pc |-> IF failed THEN "done" ELSE "check",
                            args |-> [max_offset |-> max_offset,
                                      max_jitter |-> max_jitter],
                            max_offset |-> o, max_jitter |-> j,
                            cmd_ok |-> FALSE, peers |-> <<>>,
                            selectedPeer |-> 0, countUp |-> 0]
              /\ Commit(IF o.exc # "none" THEN uncaught(World, o.exc)
                        ELSE IF j.exc # "none" THEN uncaught(World, j.exc)
                        ELSE World)
    /\ UNCHANGED <<globals, range_vars, recorded, added>>

\* Check_Ntp_Peers.check
NtpCheck ==
    /\ script.name = "check_ntp_peers"
    /\ script.pc = "check"
    /\ exit_code = None
    /\ \E cmd_ok \in BOOLEAN, peers \in PeerLists :
          LET w0 == IF ~cmd_ok THEN uncaught(World, "CalledProcessError")
                    ELSE [World EXCEPT !.response.status = OK]
              st == ntp_peers_loop([w |-> w0, selectedPeer |-> 0, countUp |-> 0],
                                   script, IF cmd_ok THEN peers ELSE <<>>, 1)
              w1 == IF st.selectedPeer = 0
                    THEN response_exit(st.w, "CRITICAL", <<"No NTP peer is selected">>)
                    ELSE st.w
              w2 == IF st.countUp < 1
                    THEN response_exit(w1, "CRITICAL", <<"All NTP peers down">>)
                    ELSE w1
              w3 == IF st.countUp < Len(peers)
                    THEN response_exit(w2, "WARNING", <<"Of total NTP peers is down">>)
                    ELSE w2
              \* the message reads selectedPeer.remote before exit is called
              w4 == IF st.selectedPeer = 0 THEN uncaught(w3, "AttributeError")
                    ELSE response_exit(w3, "OK", <<"Peer is selected">>)
          IN  /\ script' = [script EXCEPT !.pc = "done", !.cmd_ok = cmd_ok,
                               !.peers = IF cmd_ok THEN peers ELSE <<>>,
                               !.selectedPeer = st.selectedPeer,
                               !.countUp = st.countUp]
              /\ Commit(w4)
    /\ UNCHANGED <<globals, range_vars, recorded, added>>

NextNtp ==
    \/ \E u, w, c \in DOMAIN str_to_errstat : parse(u, w, c)
    \/ NtpInit
    \/ NtpCheck

SpecNtp == Init /\ [][NextNtp]_vars

\* ----------------------------------------------- check_imap_message_age.py
\* --warning / --critical, in seconds
ImapArgs == {[warning |-> 10, critical |-> 20]}

\* a timestamp strptime does not understand
Unparseable == -1

\* now.replace(year=1990), as an age in seconds
LongAgo == 36 * 365 * 86400

\* the messages of the folder: the result of the fetch and the age in
\* seconds of the Received timestamp
Messages == {[result |-> "OK", age |-> a] : a \in {5, 15, 25, Unparseable}}
               \cup {[result |-> "NO", age |-> 5]}
Folders == UNION {[1..n -> Messages] : n \in 0..MaxMessages}

\* lines 122-180: the age of oldest_message_dt after the messages from i on
RECURSIVE imap_oldest(_, _, _)
imap_oldest(oldest, msgs, i) ==
    IF i > Len(msgs) THEN oldest
    ELSE LET m == msgs[i]
         IN  imap_oldest(IF m.result # "OK" THEN oldest
                         ELSE IF m.age = Unparseable THEN LongAgo
                         ELSE IF oldest = None THEN m.age
                         ELSE IF m.age > oldest THEN m.age
                         ELSE oldest,
                         msgs, i + 1)

\* Check_Imap_Message_Age.__init__
ImapInit ==
    /\ parsed
    /\ script.pc = "none"
    /\ \E a \in ImapArgs :
          script' = [name |-> "check_imap_message_age", pc |-> "check",
                     warning |-> a.warning, critical |-> a.critical,
                     connect_ok |-> FALSE, login_ok |-> FALSE,
                     search_ok |-> FALSE, msgs |-> <<>>, oldest |-> None]
    /\ UNCHANGED <<globals, range_vars, response_vars, printed, exit_name, raised>>

\* Check_Imap_Message_Age.check
ImapCheck ==
    /\ script.name = "check_imap_message_age"
    /\ script.pc = "check"
    /\ exit_code = None
    /\ \E connect_ok, login_ok, search_ok \in BOOLEAN, msgs \in Folders :
          LET w1 == IF ~connect_ok
                    THEN response_exit(World, "UNKNOWN", <<"Could not connect">>)
                    ELSE World
              w2 == IF ~login_ok
                    THEN response_exit(w1, "UNKNOWN", <<"Authentication failure">>)
                    ELSE w1
              w3 == IF ~search_ok
                    THEN response_exit(w2, "UNKNOWN", <<"Could not search">>)
                    ELSE w2
              w4 == IF Terminated(w3) THEN w3
                    ELSE [w3 EXCEPT !.response.perfdata = <<"'Messages'=0;;">>]
              w5 == IF msgs = <<>>
                    THEN response_exit(w4, "OK", <<"No messages found">>)
                    ELSE w4
              oldest == imap_oldest(None, msgs, 1)
              w6 == IF Terminated(w5) THEN w5
                    ELSE [w5 EXCEPT !.response.perfdata = <<"'Messages'=n;;">>]
              \* line 190 unpacks m_util.response, which is not iterable
              \* and ends every run that comes this far: the age tests of
              \* lines 191-207 are never reached
              w7 == uncaught(w6, "TypeError")
          IN  /\ script' = [script EXCEPT !.pc = "done",
                               !.connect_ok = connect_ok, !.login_ok = login_ok,
                               !.search_ok = search_ok, !.msgs = msgs,
                               !.oldest = IF Terminated(w5) THEN None ELSE oldest]
              /\ Commit(w7)
    /\ UNCHANGED <<globals, range_vars, recorded, added>>

NextImap ==
    \/ \E u, w, c \in DOMAIN str_to_errstat : parse(u, w, c)
    \/ ImapInit
    \/ ImapCheck

SpecImap == Init /\ [][NextImap]_vars

\* --------------------------------------------------- check_http_redirect.py
\* --url by its scheme and network location, --host, --redir
HttpArgs == [scheme : {"http", "https", "ftp"}, netloc : {"", "h"},
             host_valid : BOOLEAN, redir : {<<"a">>}]

\* what conn.request / conn.getresponse raise
HttpExceptions == {"InvalidURL", "UnknownProtocol", "CannotSendRequest",
                   "HTTPException", "socket.error"}

\* the response: its status and its Location header
HttpResponses == [status : {200, 301, 302}, location : {NoneStr, <<"a">>, <<"b">>}]

\* line 89
is_redirect(status) == status \in {301, 302}

\* CheckHttpRedirekt.__init__
HttpInit ==
    /\ parsed
    /\ script.pc = "none"
    /\ \E a \in HttpArgs :
          script' = [name |-> "check_http_redirect", pc |-> "check", args |-> a,
                     exc |-> "none", res |-> [status |-> 0, location |-> NoneStr]]
    /\ UNCHANGED <<globals, range_vars, response_vars, printed, exit_name, raised>>

\* CheckHttpRedirekt.check
HttpCheck ==
    /\ script.name = "check_http_redirect"
    /\ script.pc = "check"
    /\ exit_code = None
    /\ \E exc \in HttpExceptions \cup {"none"}, res \in HttpResponses :
          LET url == script.args
              w1 == IF url.scheme \notin {"http", "https"}
                    THEN response_exit(World, "UNKNOWN", <<"Cannot handle scheme">>)
                    ELSE World
              w2 == IF url.netloc = ""
                    THEN response_exit(w1, "UNKNOWN", <<"No network location specified">>)
                    ELSE w1
              \* lines 72-75 are outside the try: HTTPConnection raises
              \* InvalidURL for a host with a port that is no number
              w3 == IF ~url.host_valid THEN uncaught(w2, "InvalidURL") ELSE w2
              w4 == IF exc # "none"
                    THEN response_exit(w3, "UNKNOWN", <<"Exception">>)
                    ELSE w3
              w5 == IF ~is_redirect(res.status)
                    THEN response_exit(w4, "CRITICAL", <<"No redirect returned">>)
                    ELSE w4
              w6 == IF res.location = NoneStr
                    THEN response_exit(w5, "CRITICAL", <<"No redirect header">>)
                    ELSE w5
              w7 == IF res.location # url.redir
                    THEN response_exit(w6, "CRITICAL", <<"Redirect to wrong URL">>)
                    ELSE w6
              w8 == response_exit(w7, "OK", <<"Redirect to">>)
          IN  /\ script' = [script EXCEPT !.pc = "done",
                               !.exc = IF Terminated(w3) THEN "none" ELSE exc,
                               !.res = IF Terminated(w4)
                                       THEN [status |-> 0, location |-> NoneStr]
                                       ELSE res]
              /\ Commit(w8)
    /\ UNCHANGED <<globals, range_vars, recorded, added>>

NextHttp ==
    \/ \E u, w, c \in DOMAIN str_to_errstat : parse(u, w, c)
    \/ HttpInit
    \/ HttpCheck

SpecHttp == Init /\ [][NextHttp]_vars

\* --------------------------------------------------- check_rrsig_expiry.py
\* --warning / --critical in days (defaults 8 and 6), and which of
\* --zonefile, --host, --zone, --tsig are given; a tsig file may be missing
RrsigArgs == [warning : {8, 6}, critical : {6}, zonefile : BOOLEAN,
              host : BOOLEAN, zone : BOOLEAN,
              tsig : {"none", "exists", "missing"}]

\* an RRSIG record whose expiration strptime does not understand
BadDate == -99

\* the RRSIG records of the zone: days from now to the expiration
Rrsigs == {-1, 5, 7, 9, BadDate}
Zones == UNION {[1..n -> Rrsigs] : n \in 0..MaxRrsig}

\* Check_Rrsig_Expiry.__init__, after the options are parsed
RrsigInit ==
    /\ parsed
    /\ script.pc = "none"
    /\ \E a \in RrsigArgs :
          LET w1 == IF a.warning <= a.critical
                    THEN response_exit(World, "UNKNOWN", <<"Makes no sense">>)
                    ELSE World
              w2 == IF ~a.zonefile /\ ~a.host
                    THEN response_exit(w1, "UNKNOWN", <<"No host specified">>)
                    ELSE w1
              w3 == IF ~a.zonefile /\ ~a.zone
                    THEN response_exit(w2, "UNKNOWN", <<"No zone specified">>)
                    ELSE w2
              w4 == IF ~a.zonefile /\ a.tsig = "missing"
                    THEN response_exit(w3, "UNKNOWN", <<"TSIG file does not exist">>)
                    ELSE w3
          IN  /\ script' = [name |-> "check_rrsig_expiry",
                            pc |-> IF Terminated(w4) THEN "done" ELSE "check",
                            args |-> a, records |-> <<>>]
              /\ Commit(w4)
    /\ UNCHANGED <<globals, range_vars, recorded, added>>

\* main calls obj.check() (monitoring_util.py:221), but this script's
\* check(self, args) takes an argument: the call raises TypeError and the
\* body of check, lines 69-126, never runs
RrsigCheck ==
    /\ script.name = "check_rrsig_expiry"
    /\ script.pc = "check"
    /\ exit_code = None
    /\ \E records \in Zones :
          script' = [script EXCEPT !.pc = "done", !.records = records]
    /\ Commit(uncaught(World, "TypeError"))
    /\ UNCHANGED <<globals, range_vars, recorded, added>>

NextRrsig ==
    \/ \E u, w, c \in DOMAIN str_to_errstat : parse(u, w, c)
    \/ RrsigInit
    \/ RrsigCheck

SpecRrsig == Init /\ [][NextRrsig]_vars

\* ------------------------------------------------------- every check script
NextScripts ==
    \/ \E u, w, c \in DOMAIN str_to_errstat : parse(u, w, c)
    \/ FileStatusInit
    \/ FileStatusCheck
    \/ NtpInit
    \/ NtpCheck
    \/ ImapInit
    \/ ImapCheck
    \/ HttpInit
    \/ HttpCheck
    \/ RrsigInit
    \/ RrsigCheck

SpecScripts == Init /\ [][NextScripts]_vars

\* ----------------------------------------------- check_becs_dhcp_scopes.py
\* the results of BECS: one entry per DHCP scope, in the order of the dict,
\* each with its name and the keys of its "prefixes"
ScopeResults == [name : {"a", "b"},
                 prefixes : {{"summary"}, {"summary", "net"}, {"net"}}]
Results == UNION {[1..n -> ScopeResults] : n \in 0..MaxScopes}

\* a file of the file system: absent, or its content as a list of blocks
NoFile == [exists |-> FALSE, content |-> <<>>]
File(content) == [exists |-> TRUE, content |-> content]

\* conf.template
template == <<"template">>

\* Icinga.service_name
service_name(result, prefix) == <<"DHCP Scope ", result.name, " - ", prefix>>

\* lines 47-57: the configuration written to conf.temp_conf_file; a scope
\* gets an apply Service block when it has the prefix "summary"
RECURSIVE icinga_services(_, _)
icinga_services(results, i) ==
    IF i > Len(results) THEN <<>>
    ELSE (IF "summary" \in results[i].prefixes
          THEN <<service_name(results[i], "summary")>>
          ELSE <<>>) \o icinga_services(results, i + 1)

icinga_config(results) == <<template>> \o icinga_services(results, 1)

\* filecmp.cmp(f1, f2, shallow=False)
filecmp_cmp_never(f1, f2) == FALSE

filecmp_cmp(f1, f2) == f1.content = f2.content

\* the configuration file installed before the first call
InstalledAtStart ==
    {NoFile, File(<<<<"other">>>>)}
        \cup {File(icinga_config(r)) : r \in {x \in Results : Len(x) <= 1}}

\* the file system and icinga2 before the first write_config
IcingaStart ==
    /\ script.pc = "none"
    /\ \E installed \in InstalledAtStart :
          script' = [name |-> "check_becs_dhcp_scopes", pc |-> "icinga",
                     temp |-> NoFile, installed |-> installed,
                     before |-> installed, results |-> <<>>,
                     prev_results |-> <<>>, calls |-> 0, reloads |-> 0]
    /\ UNCHANGED <<globals, range_vars, response_vars, printed, exit_name, raised>>

\* Icinga.write_config(filename, results), filename being the installed file
write_config(results) ==
    /\ script.name = "check_becs_dhcp_scopes"
    /\ script.calls < MaxCalls
    /\ LET temp == File(icinga_config(results))
           identical == script.installed.exists
                            /\ filecmp_cmp(temp, script.installed)
       IN  script' = [script EXCEPT
                         !.temp = temp,
                         !.before = script.installed,
                         !.installed = IF identical THEN @ ELSE temp,
                         !.reloads = IF identical THEN @ ELSE @ + 1,
                         !.prev_results = script.results,
                         !.results = results,
                         !.calls = @ + 1]
    /\ UNCHANGED <<globals, range_vars, response_vars, printed, exit_name, raised>>

NextIcinga ==
    \/ IcingaStart
    \/ \E results \in Results : write_config(results)

SpecIcinga == Init /\ [][NextIcinga]_vars

\* ------------------------------------------------------------ properties
\* Python's  a <= b
Le(a, b) == a.k # "nan" /\ b.k # "nan" /\ ~Lt(b, a)

Built == range_ # NoneStr
Constructed == range_obj.exc = "none"
Colons(s) == Cardinality({i \in 1..Len(s) : s[i] = ":"})

\* the specification text without its leading "@"
Body == IF Len(range_) > 0 /\ range_[1] = "@" THEN SubSeq(range_, 2, Len(range_))
        ELSE range_
ColonAt == CHOOSE i \in 1..Len(Body) : Body[i] = ":"
Left == SubSeq(Body, 1, ColonAt - 1)
Right == SubSeq(Body, ColonAt + 1, Len(Body))
IsNumber(t) == float(t).exc = "none" /\ float(t).val.k = "fin"
Number(t) == float(t).val

\* the text is  A:B ,  A:  or  :B  (after an optional "@"), A and B numbers
FormAB == Built /\ Colons(Body) = 1 /\ IsNumber(Left) /\ IsNumber(Right)
FormA == Built /\ Colons(Body) = 1 /\ IsNumber(Left) /\ Right = <<>>
FormB == Built /\ Colons(Body) = 1 /\ Left = <<>> /\ IsNumber(Right)

\* C1: a specification that is a single number N >= 0 without a colon
\* constructs, with start = 0, end = N and inside = FALSE.
C1_SingleNumber ==
    (Built /\ Colons(range_) = 0 /\ IsNumber(range_) /\ Le(Fin(0), Number(range_)))
        => /\ Constructed
           /\ range_obj.start = Fin(0)
           /\ range_obj.end = Number(range_)
           /\ range_obj.inside = FALSE

\* C2: "A:B" with A <= B constructs with start = A and end = B and
\* inside = FALSE; "@A:B" gives the same bounds and inside = TRUE.
C2_StartEnd ==
    (FormAB /\ Le(Number(Left), Number(Right)))
        => /\ Constructed
           /\ range_obj.start = Number(Left)
           /\ range_obj.end = Number(Right)
           /\ range_obj.inside = (range_[1] = "@")

C2_Witness ==
    /\ FormAB
    /\ range_[1] = "@"
    /\ Constructed
    /\ range_obj.inside
    /\ range_obj.start = Fin(1)
    /\ range_obj.end = Fin(2)

\* C3: for "A:" the parsed end is positive infinity, so that no finite value
\* is greater than end; for ":B" the parsed start is 0.
C3_OpenEnd ==
    /\ FormA => /\ Constructed
                /\ \A v \in Values : ~Gt(v, range_obj.end)
    /\ (FormB /\ Constructed) => range_obj.start = Fin(0)

\* C4: a specification with two or more ":" fails with an error and no
\* object is produced.
C4_TwoColons ==
    (Built /\ Colons(range_) >= 2) => range_obj = NoObject(range_obj.exc) /\ ~Constructed

C4_Witness ==
    /\ Built
    /\ Colons(range_) = 2
    /\ IsNumber(SubSeq(range_, 1, 1))
    /\ range_obj.exc = "ValueError"

\* C5: every constructed Check_Range satisfies start <= end, for as long as
\* it lives.
C5_StartLeEnd == Constructed => Le(range_obj.start, range_obj.end)

\* C6: on a range without "@", check(value) alerts exactly when
\* value < start or value > end; value = start and value = end do not alert.
C6_Outside ==
    (ret.op = "check" /\ ~range_obj.inside)
        => /\ ret.alert <=> (Lt(ret.value, range_obj.start) \/ Gt(ret.value, range_obj.end))
           /\ ret.value = range_obj.start => ~ret.alert
           /\ ret.value = range_obj.end => ~ret.alert

C6_Witness ==
    /\ ret.op = "check"
    /\ ~range_obj.inside
    /\ Lt(range_obj.start, range_obj.end)
    /\ ret.value = range_obj.end
    /\ ~ret.alert

\* C7: on a range written with "@", check(value) alerts exactly when
\* start <= value <= end.
C7_Inside ==
    (ret.op = "check" /\ range_obj.inside)
        => (ret.alert <=> (Le(range_obj.start, ret.value) /\ Le(ret.value, range_obj.end)))

\* C8 as stated: CRITICAL when value > end, and the result does not depend on
\* the start of the range.
C8_IgnoresStart ==
    ret.op = "check_warn_crit"
        => /\ Gt(ret.value, range_obj.end) => ret.stat = CRITICAL
           /\ \A v \in Values :
                 check_warn_crit([range_obj EXCEPT !.start = v], ret.value,
                                 WARNING, CRITICAL) = ret.stat

\* C8 amended: check_warn_crit takes a value and one range and returns the
\* CRITICAL code when value > end, else the WARNING code when value > start,
\* else OK; the "@" flag has no part in it.
C8_WarnCrit ==
    ret.op = "check_warn_crit"
        => /\ ret.stat = IF Gt(ret.value, range_obj.end) THEN CRITICAL
                         ELSE IF Gt(ret.value, range_obj.start) THEN WARNING
                         ELSE OK
           /\ check_warn_crit([range_obj EXCEPT !.inside = ~range_obj.inside],
                              ret.value, WARNING, CRITICAL) = ret.stat

C8_Witness ==
    /\ ret.op = "check_warn_crit"
    /\ ~parsed
    /\ range_obj.start = Fin(1)
    /\ range_obj.end = Fin(2)
    /\ ret.value = Fin(2)
    /\ ret.stat = DEFAULT_WARNING

\* the worst of the recorded statuses, under OK < WARNING < CRITICAL < UNKNOWN
Worst(statuses) ==
    CHOOSE m \in {statuses[i] : i \in 1..Len(statuses)} :
        \A i \in 1..Len(statuses) : statuses[i] <= m

\* C9: on a fresh Response, after any set_status calls the running status is
\* the worst of the statuses recorded so far.
C9_WorstRecorded ==
    (exit_code = None /\ recorded # <<>>) => response.status = Worst(recorded)

\* the first output line exit composes from its arguments and the perfdata
FirstLine ==
    errstat_to_str[exit_code]
        \o (IF exit_args.msg # NoneStr THEN <<" ">> \o exit_args.msg ELSE <<>>)
        \o (IF response.perfdata # NoneStr THEN <<"|">> \o response.perfdata ELSE <<>>)

\* C10: exit prints the severity name, then a space and the message if one
\* is given, then "|" and the perfdata if set, then every detail on a line
\* of its own in the order of the add_detail calls, none lost or repeated.
C10_Output ==
    exit_code # None
        => /\ split(stdout, "\n") = <<FirstLine>> \o added
           /\ exit_args.status # None => exit_code = exit_args.status

C10_Witness ==
    /\ exit_code # None
    /\ Len(added) = 2
    /\ added[1] # added[2]
    /\ exit_args.msg = <<"m">>
    /\ response.perfdata # NoneStr
    /\ Len(recorded) > 0
    /\ Len(stdout) = 9

\* C12 as stated: with no set_status call, exit ends with exactly the status
\* the caller passed, also when the caller passed none.
C12_PassedStatus ==
    (exit_code # None /\ raised = "none" /\ recorded = <<>>)
        => exit_code = exit_args.status

\* C12 amended: with no set_status call, exit ends with the status the caller
\* passed when it passed one, and with the initial status of the Response,
\* UNKNOWN, when the caller passed None.
C12_PassedOrInitial ==
    (exit_code # None /\ raised = "none" /\ recorded = <<>>)
        => /\ exit_code = IF exit_args.status # None THEN exit_args.status
                          ELSE DEFAULT_UNKNOWN
           /\ stdout[1] = errstat_to_str[exit_code][1]

C12_Witness ==
    /\ exit_code = DEFAULT_UNKNOWN
    /\ recorded = <<>>
    /\ exit_args.status = None
    /\ stdout[1] = "UNKNOWN"
    /\ printed = 1

\* C14: "~" is accepted as the left operand and parses to negative infinity,
\* so that no finite value is below start.
C14_Tilde ==
    (Built /\ Colons(Body) = 1 /\ Left = <<"~">> /\ (Right = <<>> \/ IsNumber(Right)))
        => /\ Constructed
           /\ \A v \in Values : ~Lt(v, range_obj.start)

\* the range grammar: ["@"] ( number | [number | "~"] ":" [number] ), a number
\* being an optional "-" and then decimal digits or nan
GrammarNumber(t) ==
    LET b == IF Len(t) > 0 /\ t[1] = "-" THEN SubSeq(t, 2, Len(t)) ELSE t
    IN  \/ b = <<"nan">>
        \/ Len(b) > 0 /\ \A i \in 1..Len(b) : b[i] \in {"0", "1", "2", "3", "4",
                                                        "5", "6", "7", "8", "9"}

MatchesGrammar ==
    \/ Colons(Body) = 0 /\ GrammarNumber(Body)
    \/ /\ Colons(Body) = 1
       /\ Left = <<>> \/ Left = <<"~">> \/ GrammarNumber(Left)
       /\ Right = <<>> \/ GrammarNumber(Right)

Canonical == [n \in {"OK", "WARNING", "CRITICAL", "UNKNOWN"} |->
                CASE n = "OK" -> 0
                  [] n = "WARNING" -> 1
                  [] n = "CRITICAL" -> 2
                  [] n = "UNKNOWN" -> 3]

DefaultArgs == [unknown_as |-> "unknown", warning_as |-> "warning",
                critical_as |-> "critical"]

NamedStatus(line) ==
    LET t == lower(line)
    IN  IF startswith_str(t, <<"o", "k">>) THEN "OK"
        ELSE IF startswith_str(t, <<"w", "a", "r", "n", "i", "n", "g">>) THEN "WARNING"
        ELSE IF startswith_str(t, <<"c", "r", "i", "t", "i", "c", "a", "l">>) THEN "CRITICAL"
        ELSE "UNKNOWN"

FileStatusDone == script.name = "check_file_status" /\ script.pc = "done"
FileUsable == script.exists /\ script.mtime_ok /\ script.readable
FileFresh == /\ ~(script.age_hours > script.age_critical)
             /\ ~(script.age_hours > script.age_warning)

\* C17: a file that exists, is readable and is not too old makes the script
\* exit with the status its first line names, UNKNOWN when it names none.
C17_FirstLineStatus ==
    (FileStatusDone /\ FileUsable /\ FileFresh /\ script.lines # <<>>)
        => /\ raised = "none"
           /\ exit_name = NamedStatus(script.lines[1])

\* C18: a file older than age_critical exits CRITICAL, otherwise one older
\* than age_warning exits WARNING; with the default limits some age gives
\* WARNING and some age gives CRITICAL.
C18_AgeLimits ==
    /\ (FileStatusDone /\ script.exists /\ script.mtime_ok)
          => /\ script.age_hours > script.age_critical => exit_name = "CRITICAL"
             /\ (~(script.age_hours > script.age_critical)
                    /\ script.age_hours > script.age_warning) => exit_name = "WARNING"
    /\ (script.name = "check_file_status" /\ script.pc = "check"
           /\ script.age_warning = DEFAULT_AGE_WARNING
           /\ script.age_critical = DEFAULT_AGE_CRITICAL)
          => /\ \E a \in 0..MaxAge : age_exit(a, script.age_warning,
                                              script.age_critical) = "CRITICAL"
             /\ \E a \in 0..MaxAge : age_exit(a, script.age_warning,
                                              script.age_critical) = "WARNING"

\* the class of a measurement against the default limits 250 and 500
Classify(x) == IF x > 500 THEN "CRITICAL" ELSE IF x > 250 THEN "WARNING" ELSE "OK"

NtpDone == script.name = "check_ntp_peers" /\ script.pc = "done"

NtpHealthy ==
    /\ script.args = [max_offset |-> NtpDefaultRange, max_jitter |-> NtpDefaultRange]
    /\ script.cmd_ok
    /\ \E i \in 1..Len(script.peers) : script.peers[i].tally = "*"
    /\ \A i \in 1..Len(script.peers) : script.peers[i].stratum # 16

NtpMeasured == {abs(script.peers[i].offset) : i \in 1..Len(script.peers)}
                  \cup {script.peers[i].jitter : i \in 1..Len(script.peers)}

\* C16: with the default limits, a selected peer and all peers up,
\* check_ntp_peers finishes CRITICAL when some jitter or absolute offset is
\* above 500, otherwise WARNING when one is above 250, otherwise OK.
C16_EndToEnd ==
    (NtpDone /\ NtpHealthy /\ args = DefaultArgs)
        => /\ raised = "none"
           /\ exit_name = IF \E x \in NtpMeasured : Classify(x) = "CRITICAL"
                          THEN "CRITICAL"
                          ELSE IF \E x \in NtpMeasured : Classify(x) = "WARNING"
                          THEN "WARNING"
                          ELSE "OK"

\* C13: exit is terminal: no run of a check script prints a second status
\* line, and once the process has ended nothing the response holds or has
\* printed changes any more.
C13_Terminal ==
    /\ [](printed <= 1)
    /\ [][exit_code # None
            => /\ script.pc = "done" => UNCHANGED <<response_vars, printed>>
               /\ script.pc # "done" => script'.pc = "done"]_vars

\* a status file that does not exist: lines 45 and 50 of check_file_status
\* both call exit, and only the first has printed
C13_Witness ==
    /\ script.name = "check_file_status"
    /\ script.pc = "done"
    /\ ~script.exists
    /\ printed = 1
    /\ exit_name = "UNKNOWN"

ImapDone == script.name = "check_imap_message_age" /\ script.pc = "done"
ImapSearched == script.connect_ok /\ script.login_ok /\ script.search_ok

\* C19: after a successful connect, login and search check_imap_message_age
\* ends in a plugin status and never in an uncaught error: OK for an empty
\* folder, CRITICAL for a message whose timestamp cannot be parsed or an
\* oldest message older than --critical, otherwise WARNING for one older
\* than --warning, otherwise OK.
C19_MessageAge ==
    (ImapDone /\ ImapSearched)
        => /\ raised = "none"
           /\ printed = 1
           /\ script.msgs = <<>> => exit_name = "OK"
           /\ (script.msgs # <<>> /\ script.oldest # None)
                 => exit_name = IF script.oldest > script.critical THEN "CRITICAL"
                                ELSE IF script.oldest > script.warning THEN "WARNING"
                                ELSE "OK"

HttpDone == script.name = "check_http_redirect" /\ script.pc = "done"
HttpRejected == script.args.scheme \notin {"http", "https"} \/ script.args.netloc = ""
HttpFailed == ~script.args.host_valid \/ script.exc # "none"
HttpRedirected ==
    /\ script.res.status \in {301, 302}
    /\ script.res.location # NoneStr
    /\ script.res.location = script.args.redir

\* C20: check_http_redirect exits OK exactly when a 301 or 302 response has
\* a Location header equal to the expected URL; any other response exits
\* CRITICAL; an unsupported scheme, an empty network location or a
\* connection/HTTP exception exits UNKNOWN with nothing printed after it.
C20_Redirect ==
    HttpDone
        => /\ exit_name = "OK" <=> (~HttpRejected /\ ~HttpFailed /\ HttpRedirected)
           /\ (~HttpRejected /\ ~HttpFailed /\ ~HttpRedirected) => exit_name = "CRITICAL"
           /\ (HttpRejected \/ HttpFailed) => (exit_name = "UNKNOWN" /\ printed = 1)

IcingaWritten == script.name = "check_becs_dhcp_scopes" /\ script.calls > 0

RrsigDone == script.name = "check_rrsig_expiry" /\ script.pc = "done"
RrsigUsable ==
    /\ script.args.warning > script.args.critical
    /\ \/ script.args.zonefile
       \/ script.args.host /\ script.args.zone /\ script.args.tsig # "missing"
RrsigParsed == {script.records[i] : i \in 1..Len(script.records)} \ {BadDate}

\* C22: check_rrsig_expiry exits UNKNOWN at start-up when warning <=
\* critical; otherwise it exits CRITICAL when the zone has no signature or
\* the earliest expiry is past or at most --critical days away, WARNING when
\* it is less than --warning days away, and OK only when a date was parsed
\* and every signature expires at least --warning days from now.
C22_RrsigExpiry ==
    RrsigDone
        => /\ script.args.warning <= script.args.critical => exit_name = "UNKNOWN"
           /\ RrsigUsable
                 => /\ raised = "none"
                    /\ script.records = <<>> => exit_name = "CRITICAL"
                    /\ (\E d \in RrsigParsed : d < 0 \/ d <= script.args.critical)
                          => exit_name = "CRITICAL"
                    /\ (/\ RrsigParsed # {}
                        /\ \A d \in RrsigParsed : d > script.args.critical
                        /\ \E d \in RrsigParsed : d < script.args.warning)
                          => exit_name = "WARNING"
                    /\ exit_name = "OK"
                          => /\ RrsigParsed # {}
                             /\ \A d \in RrsigParsed : d >= script.args.warning

====
